---- MODULE Spec2Model ----
(***************************************************************************)
(* EigenFlow dashboard (src/app_update2.py): the access-key validator, the *)
(* key mask, the session gate of main(), the data loaders, the signal      *)
(* table, the history page and the percent formatter.                      *)
(*                                                                         *)
(* Strings are sequences of one-character strings, so that strip(),        *)
(* upper(), slicing, strftime() and strptime() are computed, not assumed.  *)
(* Dates are records [y, m, d] on the proleptic Gregorian calendar.        *)
(***************************************************************************)
EXTENDS Integers, Sequences, FiniteSets, TLC

VARIABLES
    now,                \* datetime.now(), its calendar date
    ticks,              \* number of clock advances so far (bounded)
    secrets,            \* st.secrets: whether access_keys is present, and its keys
    key_states,         \* st.session_state.key_states : normalized key -> [first_seen]
    verified_key,       \* st.session_state.verified_key (None or the submitted text)
    verified_key_mask,  \* st.session_state.verified_key_mask
    call,               \* the function the last step called, and its argument
    result,             \* what that call returned
    page,               \* what the last step rendered, when it was a pass of main()
    sessions,           \* st.session_state of each browser session, when several are open
    log                 \* per key, what the validate calls of the session returned so far,
                        \* where a specification keeps it

vars == <<now, ticks, secrets, key_states, verified_key, verified_key_mask,
          call, result, page, sessions, log>>

None == <<"None">>

\* ------------------------------------------------------------------ bounds
MaxTicks == 3
MaxRows == 3

\* ------------------------------------------------------------------ strings
Whitespace == {" ", "\t", "\n"}

LowerCase == <<"a","b","c","d","e","f","g","h","i","j","k","l","m",
               "n","o","p","q","r","s","t","u","v","w","x","y","z">>
UpperCase == <<"A","B","C","D","E","F","G","H","I","J","K","L","M",
               "N","O","P","Q","R","S","T","U","V","W","X","Y","Z">>

\* str.upper() on one character
UpperChar(c) ==
    IF \E i \in 1..Len(LowerCase) : LowerCase[i] = c
    THEN UpperCase[CHOOSE i \in 1..Len(LowerCase) : LowerCase[i] = c]
    ELSE c

\* str.upper()
Upper(s) == [i \in 1..Len(s) |-> UpperChar(s[i])]

\* s[a:b] of Python for 0 <= a, 0 <= b (0-based, end exclusive, clamped)
Slice(s, a, b) ==
    LET hi == IF b > Len(s) THEN Len(s) ELSE b
    IN  IF a >= hi THEN <<>> ELSE SubSeq(s, a + 1, hi)

\* s[-n:] of Python for n > 0
Tail_n(s, n) == IF n >= Len(s) THEN s ELSE SubSeq(s, Len(s) - n + 1, Len(s))

\* str.strip(): drop leading and trailing whitespace
Strip(s) ==
    LET idx == {i \in 1..Len(s) : s[i] \notin Whitespace}
    IN  IF idx = {} THEN <<>>
        ELSE LET lo == CHOOSE i \in idx : \A j \in idx : i <= j
                 hi == CHOOSE i \in idx : \A j \in idx : i >= j
             IN  SubSeq(s, lo, hi)

\* Normalize without the upper()
NormalizeStripOnly(s) == Strip(s)

\* key.strip().upper()
Normalize(s) == Upper(Strip(s))

\* ------------------------------------------------------------------ dates
IsLeap(y) == (y % 4 = 0) /\ ((y % 100 # 0) \/ (y % 400 = 0))

DaysInMonth(y, m) ==
    IF m = 2 THEN (IF IsLeap(y) THEN 29 ELSE 28)
    ELSE IF m \in {4, 6, 9, 11} THEN 30 ELSE 31

\* number of days of year y before the first of month m
RECURSIVE DaysBeforeMonth(_, _)
DaysBeforeMonth(y, m) ==
    IF m <= 1 THEN 0 ELSE DaysBeforeMonth(y, m - 1) + DaysInMonth(y, m - 1)

\* number of days before January 1st of year y
DaysBeforeYear(y) ==
    LET p == y - 1 IN p * 365 + (p \div 4) - (p \div 100) + (p \div 400)

\* date.toordinal()
Ymd2Ord(dt) == DaysBeforeYear(dt.y) + DaysBeforeMonth(dt.y, dt.m) + dt.d

\* the calendar day after dt
NextDay(dt) ==
    IF dt.d < DaysInMonth(dt.y, dt.m) THEN [dt EXCEPT !.d = dt.d + 1]
    ELSE IF dt.m < 12 THEN [y |-> dt.y, m |-> dt.m + 1, d |-> 1]
    ELSE [y |-> dt.y + 1, m |-> 1, d |-> 1]

RECURSIVE AddDays(_, _)
AddDays(dt, n) == IF n = 0 THEN dt ELSE AddDays(NextDay(dt), n - 1)

Digits == <<"0","1","2","3","4","5","6","7","8","9">>
Digit(n) == Digits[n + 1]
IsDigit(c) == \E i \in 1..10 : Digits[i] = c
DigitVal(c) == (CHOOSE i \in 1..10 : Digits[i] = c) - 1

\* now.strftime('%Y-%m-%d')
Strftime(dt) ==
    << Digit(dt.y \div 1000), Digit((dt.y \div 100) % 10),
       Digit((dt.y \div 10) % 10), Digit(dt.y % 10), "-",
       Digit(dt.m \div 10), Digit(dt.m % 10), "-",
       Digit(dt.d \div 10), Digit(dt.d % 10) >>

\* does datetime.strptime(s, '%Y-%m-%d') succeed
StrptimeOk(s) ==
    /\ Len(s) = 10
    /\ s[5] = "-" /\ s[8] = "-"
    /\ \A i \in {1, 2, 3, 4, 6, 7, 9, 10} : IsDigit(s[i])
    /\ LET y == DigitVal(s[1]) * 1000 + DigitVal(s[2]) * 100
                + DigitVal(s[3]) * 10 + DigitVal(s[4])
           m == DigitVal(s[6]) * 10 + DigitVal(s[7])
           d == DigitVal(s[9]) * 10 + DigitVal(s[10])
       IN  y >= 1 /\ m \in 1..12 /\ d >= 1 /\ d <= DaysInMonth(y, m)

\* datetime.strptime(s, '%Y-%m-%d') when it succeeds
Strptime(s) ==
    [ y |-> DigitVal(s[1]) * 1000 + DigitVal(s[2]) * 100
            + DigitVal(s[3]) * 10 + DigitVal(s[4]),
      m |-> DigitVal(s[6]) * 10 + DigitVal(s[7]),
      d |-> DigitVal(s[9]) * 10 + DigitVal(s[10]) ]

\* ------------------------------------------------------------------ keys
KEY_VALIDITY_DAYS == 30

KeyA == <<"E","F","-","2","6","Q","1","-","A","9","F","4","K","Z","2","M">>
KeyB == <<"E","F","-","2","6","Q","1","-","B","3","H","8","L","P","5","N">>
KeyC == <<"E","F","-","2","6","Q","1","-","C","7","J","2","M","R","9","R">>

\* the built-in list used when no list is configured
FallbackKeys == <<KeyA, KeyB, KeyC>>

\* a key that only a configured list holds, and a key no list holds
KeyD == <<"E","F","-","2","6","Q","2","-","D","1","D","2","D","3","D","4">>
KeyX == <<"E","F","-","2","6","Q","1","-","X","X","X","X","X","X","X","X">>

\* spellings of KeyA as a user may type them
KeyA_lower == <<" ","e","f","-","2","6","q","1","-","a","9","f","4","k","z","2","m","\t">>

\* the texts submitted in the model
RawKeys == {KeyA, KeyA_lower, KeyB, KeyD, KeyX, <<" ">>, <<>>}

\* the texts of a single call: those, and the third key of the built-in list
AllTexts == RawKeys \cup {KeyC}

\* st.secrets: a store whose access raises (no secrets file), no access_keys
\* section, an empty list, or a configured list
SecretsChoices ==
    { [present |-> FALSE, keys |-> <<>>, raises |-> TRUE],
      [present |-> FALSE, keys |-> <<>>, raises |-> FALSE],
      [present |-> TRUE,  keys |-> <<>>, raises |-> FALSE],
      [present |-> TRUE,  keys |-> <<KeyA, KeyD>>, raises |-> FALSE] }

\* key.strip().upper() of each submitted text, tabulated
NormalizedKey == [r \in AllTexts |-> Normalize(r)]

InSeq(x, s) == \E i \in 1..Len(s) : s[i] = x

\* an allow-list that keeps the built-in keys next to the configured ones
ValidKeysMerged(sec) ==
    (IF ~sec.raises /\ sec.present THEN sec.keys ELSE <<>>) \o FallbackKeys

\* valid_keys of validate_access_key
ValidKeys(sec) ==
    LET configured == IF ~sec.raises /\ sec.present THEN sec.keys ELSE <<>>
    IN  IF configured = <<>> THEN FallbackKeys ELSE configured

\* mask_key with "> 12" for ">= 12"
mask_key_gt(key) ==
    IF Len(key) > 12
    THEN Slice(key, 0, 8) \o <<"*","*","*","*">> \o Tail_n(key, 4)
    ELSE Slice(key, 0, 6) \o <<"*","*","*","*">>

\* mask_key(key)
mask_key(key) ==
    IF Len(key) >= 12
    THEN Slice(key, 0, 8) \o <<"*","*","*","*">> \o Tail_n(key, 4)
    ELSE Slice(key, 0, 6) \o <<"*","*","*","*">>

\* StoredFirstSeen that never finds the record
StoredFirstSeenLost(ks, key) == None

\* key_info.get('first_seen') of validate_access_key: None when there is no
\* record, or the record's text is empty
StoredFirstSeen(ks, key) ==
    IF key \in DOMAIN ks /\ ks[key].first_seen # <<>> THEN ks[key].first_seen ELSE None

\* first_seen after the "if not first_seen" block
FirstSeen(ks, key, today) ==
    IF StoredFirstSeen(ks, key) = None THEN Strftime(today) ELSE StoredFirstSeen(ks, key)

\* DaysUsed of a trial that starts over every KEY_VALIDITY_DAYS days
DaysUsedWrapped(first_seen, today) ==
    IF StrptimeOk(first_seen)
    THEN (Ymd2Ord(today) - Ymd2Ord(Strptime(first_seen))) % KEY_VALIDITY_DAYS
    ELSE 0

\* DaysUsed from the days of the month alone
DaysUsedDayOfMonth(first_seen, today) ==
    IF StrptimeOk(first_seen) THEN today.d - Strptime(first_seen).d ELSE 0

\* days_used: (now - first_date).days, 0 when first_seen does not parse.
\* first_date is midnight of first_seen and now is within its day, so the
\* whole days between them are the difference of the two dates' ordinals.
DaysUsed(first_seen, today) ==
    IF StrptimeOk(first_seen) THEN Ymd2Ord(today) - Ymd2Ord(Strptime(first_seen)) ELSE 0

\* ValidateResult without the membership check
ValidateResultNoCheck(raw, ks, today, sec) ==
    LET key == NormalizedKey[raw]
        first_seen == FirstSeen(ks, key, today)
        days_used == DaysUsed(first_seen, today)
    IN  IF days_used >= KEY_VALIDITY_DAYS
        THEN [valid |-> FALSE, expired |-> TRUE, first_seen |-> first_seen]
        ELSE [valid |-> TRUE, key_mask |-> mask_key(key), first_seen |-> first_seen,
              days_remaining |-> KEY_VALIDITY_DAYS - days_used]

\* ValidateResult with "days_used > KEY_VALIDITY_DAYS"
ValidateResultGt(raw, ks, today, sec) ==
    LET key == NormalizedKey[raw]
        first_seen == FirstSeen(ks, key, today)
        days_used == DaysUsed(first_seen, today)
    IN  IF ~InSeq(key, ValidKeys(sec)) THEN [valid |-> FALSE]
        ELSE IF days_used > KEY_VALIDITY_DAYS
        THEN [valid |-> FALSE, expired |-> TRUE, first_seen |-> first_seen]
        ELSE [valid |-> TRUE, key_mask |-> mask_key(key), first_seen |-> first_seen,
              days_remaining |-> KEY_VALIDITY_DAYS - days_used]

\* the dict validate_access_key(raw) returns
ValidateResult(raw, ks, today, sec) ==
    LET key == NormalizedKey[raw]
        first_seen == FirstSeen(ks, key, today)
        days_used == DaysUsed(first_seen, today)
    IN  IF ~InSeq(key, ValidKeys(sec)) THEN [valid |-> FALSE]
        ELSE IF days_used >= KEY_VALIDITY_DAYS
        THEN [valid |-> FALSE, expired |-> TRUE, first_seen |-> first_seen]
        ELSE [valid |-> TRUE, key_mask |-> mask_key(key), first_seen |-> first_seen,
              days_remaining |-> KEY_VALIDITY_DAYS - days_used]

\* ValidateStates that keeps no record
ValidateStatesNoRecord(raw, ks, today, sec) == ks

\* ValidateStates that records first_seen before the membership check
ValidateStatesAnyKey(raw, ks, today, sec) ==
    LET key == NormalizedKey[raw]
    IN  IF StoredFirstSeen(ks, key) = None
        THEN [k \in DOMAIN ks \cup {key} |->
                 IF k = key THEN [first_seen |-> Strftime(today)] ELSE ks[k]]
        ELSE ks

\* st.session_state.key_states after validate_access_key(raw)
ValidateStates(raw, ks, today, sec) ==
    LET key == NormalizedKey[raw]
    IN  IF InSeq(key, ValidKeys(sec)) /\ StoredFirstSeen(ks, key) = None
        THEN [k \in DOMAIN ks \cup {key} |->
                 IF k = key THEN [first_seen |-> Strftime(today)] ELSE ks[k]]
        ELSE ks

\* what a call that raised leaves in place of a returned value
Raised == [raised |-> TRUE]

\* a try block that lets every exception out
EscapesTryAll(raised) == raised

\* does an exception raised inside a "try: ... except:" block of
\* validate_access_key leave the block: the bare except catches all of them
EscapesTry(raised) == FALSE

\* does validate_access_key(raw) raise: the secrets lookup and strptime are
\* the statements that can, and each is inside a try block
ValidateRaises(raw, ks, today, sec) ==
    LET key == NormalizedKey[raw]
    IN  \/ EscapesTry(sec.raises)
        \/ /\ InSeq(key, ValidKeys(sec))
           /\ EscapesTry(~StrptimeOk(FirstSeen(ks, key, today)))

\* what a call validate_access_key(raw) ends with
ValidateOutcome(raw, ks, today, sec) ==
    IF ValidateRaises(raw, ks, today, sec) THEN Raised
    ELSE ValidateResult(raw, ks, today, sec)

\* ------------------------------------------------------------------ state
StartDate == [y |-> 2027, m |-> 12, d |-> 31]
DayJumps == {1, 29}

NoCall == [by |-> "none", key |-> <<>>]
NoResult == [returned |-> FALSE]
NoPage == [kind |-> "none", table |-> "none", rows |-> <<>>, chart |-> FALSE,
           input |-> FALSE, msg |-> "none", watermark |-> None]

Init ==
    /\ now = StartDate
    /\ ticks = 0
    /\ secrets \in SecretsChoices
    /\ key_states = <<>>
    /\ verified_key = None
    /\ verified_key_mask = None
    /\ call = NoCall
    /\ result = NoResult
    /\ page = NoPage
    /\ sessions = <<>>
    /\ log = <<>>

\* the system clock moves on by whole days
AdvanceClock ==
    /\ ticks < MaxTicks
    /\ \E n \in DayJumps : now' = AddDays(now, n)
    /\ ticks' = ticks + 1
    /\ call' = NoCall
    /\ result' = NoResult
    /\ page' = NoPage
    /\ UNCHANGED <<secrets, key_states, verified_key, verified_key_mask, sessions, log>>

\* validate_access_key(raw) called on its own, raw one of texts
ValidateOf(texts) ==
    \E raw \in texts :
        /\ result' = ValidateOutcome(raw, key_states, now, secrets)
        /\ key_states' = ValidateStates(raw, key_states, now, secrets)
        /\ call' = [by |-> "direct", key |-> raw]
        /\ page' = NoPage
        /\ UNCHANGED <<now, ticks, secrets, verified_key, verified_key_mask, sessions>>

\* ------------------------------------------------------------------ main()
\* values of the "tab" query parameter; int(tab) raises on the last one
TabParams == {"0", "1", "2", "3", "x"}
TabIsInt(t) == t \in {"0", "1", "2", "3"}
TabInt(t) == CASE t = "0" -> 0 [] t = "1" -> 1 [] t = "2" -> 2 [] t = "3" -> 3

\* what load_latest_dir() returns: None, or the first line of LATEST.txt.
\* The file binds no LATEST_URL, so as it stands the request raises inside the
\* try and the loader returns None; a deployment that binds it gets either.
LatestDirs == {"None", "2026-02-09_risk_off"}

\* what load_web_top10() returns: its columns, its number of rows, and the
\* position of its first row whose '1D Return' or '20D Momentum' cell is a
\* text that float() does not read (0 when it has none)
TopTables ==
    [cols : {{"Rank", "Symbol"}}, n : {0, MaxRows}, nonnum : {0}]
        \cup { [cols |-> {"Symbol"}, n |-> MaxRows, nonnum |-> 0],
               [cols |-> {"Rank"}, n |-> MaxRows, nonnum |-> 0],
               [cols |-> {"Rank", "Symbol"}, n |-> MaxRows, nonnum |-> MaxRows] }

\* load_web_top10 is only called with a latest_dir
NoTable == [cols |-> {}, n |-> 0, nonnum |-> 0]

\* what load_regime_history() returns, as far as a pass depends on it: whether
\* one of its last 30 rows has no risk_on value
HistoryFrames == {"complete", "risk_on_missing"}

Min(a, b) == IF a < b THEN a ELSE b

\* SignalTable that ignores unlocked
SignalTableAlwaysFull(df, unlocked, limit) ==
    IF df.n = 0 \/ "Rank" \notin df.cols
    THEN [table |-> "placeholder", rows |-> <<>>]
    ELSE [table |-> "full", rows |-> [i \in 1..df.n |-> i]]

\* SignalTable that takes the last rows of df for the preview
SignalTableTail(df, unlocked, limit) ==
    IF df.n = 0 \/ "Rank" \notin df.cols
    THEN [table |-> "placeholder", rows |-> <<>>]
    ELSE IF ~unlocked
    THEN [table |-> "preview",
          rows |-> [i \in 1..Min(limit, df.n) |-> df.n - Min(limit, df.n) + i]]
    ELSE [table |-> "full", rows |-> [i \in 1..df.n |-> i]]

\* rows that render_signal_table(df, unlocked, limit) puts in the table, by
\* position in df; "placeholder" when df is empty or has no Rank column
SignalTable(df, unlocked, limit) ==
    IF df.n = 0 \/ "Rank" \notin df.cols
    THEN [table |-> "placeholder", rows |-> <<>>]
    ELSE IF ~unlocked
    THEN [table |-> "preview", rows |-> [i \in 1..Min(limit, df.n) |-> i]]
    ELSE [table |-> "full", rows |-> [i \in 1..df.n |-> i]]

\* render_signal_table(df, unlocked, limit): the table it renders, or
\* "exception" when float() raises on a cell of a row it goes through
render_signal_table(df, unlocked, limit) ==
    LET t == SignalTable(df, unlocked, limit)
    IN  IF df.nonnum \in 1..Len(t.rows)
        THEN [table |-> "exception", rows |-> <<>>]
        ELSE t

\* the page an uncaught exception leaves
CrashPage == [NoPage EXCEPT !.kind = "exception"]

\* one run of the script body of main() with no widget pressed
RenderPass(tab, vk, vmask, latest, df, ticker, hist) ==
    LET verified == vk # None IN
    CASE tab = 0 /\ latest # "None" ->
            LET t == render_signal_table(df, verified, 2)
            IN  IF t.table = "exception"
                THEN CrashPage
                ELSE
                [kind |-> "signals", table |-> t.table, rows |-> t.rows, chart |-> FALSE,
                 input |-> ~verified, msg |-> "none", watermark |-> vmask]
      [] tab = 0 /\ latest = "None" ->
            [kind |-> "loading", table |-> "none", rows |-> <<>>, chart |-> FALSE,
             input |-> FALSE, msg |-> "none", watermark |-> None]
      [] tab = 1 /\ ~verified ->
            [kind |-> "locked", table |-> "none", rows |-> <<>>, chart |-> FALSE,
             input |-> TRUE, msg |-> "none", watermark |-> None]
      [] tab = 1 /\ verified ->
            [kind |-> "chart", table |-> "none", rows |-> <<>>,
             chart |-> IF latest # "None"
                       THEN df.n > 0 /\ "Symbol" \in df.cols
                       ELSE ticker,
             input |-> FALSE, msg |-> "none", watermark |-> vmask]
      [] tab = 2 /\ hist = "risk_on_missing" ->
            CrashPage              \* int(row.get('risk_on', 0)) raises on NaN
      [] tab = 2 /\ hist # "risk_on_missing" ->
            [kind |-> "history", table |-> "none", rows |-> <<>>, chart |-> FALSE,
             input |-> FALSE, msg |-> "none", watermark |-> vmask]
      [] OTHER ->
            [kind |-> "subscribe", table |-> "none", rows |-> <<>>, chart |-> FALSE,
             input |-> FALSE, msg |-> "none", watermark |-> None]

\* the buttons a rendered page offers: the access input comes with "confirm"
\* and with a button to the subscribe page; a preview table has one as well
WidgetsOf(pg) ==
    {"none"} \cup (IF pg.input THEN {"confirm", "subscribe"} ELSE {})
             \cup (IF pg.table = "preview" THEN {"subscribe"} ELSE {})

\* a message that tells an expired key from an unknown one
RejectionMessageReason(r) == IF "expired" \in DOMAIN r THEN "expired" ELSE "error"

\* the message main() shows for a result that is not valid: the same
\* st.error text whatever the result says
RejectionMessage(r) == "error"

\* a session initialisation that resets the value on every pass
SessionInitAlways(value) == None

\* the initialisation at the top of main(): a value of the session state is
\* set to None only when the session does not have it yet (Init), and is
\* kept otherwise
SessionInit(value) == value

\* one pass of main(): the tab parameter, the loaders' outputs, the widget the
\* user pressed and the text of the access input are the inputs of the pass
MainPass ==
    \E tabParam \in TabParams, latest \in LatestDirs :
    \E df \in (IF latest = "None" THEN {NoTable} ELSE TopTables),
       ticker \in (IF latest = "None" THEN BOOLEAN ELSE {FALSE}),
       hist \in (IF tabParam = "2" THEN HistoryFrames ELSE {"complete"}) :
       LET vk == SessionInit(verified_key)
           vmask == SessionInit(verified_key_mask)
       IN
       IF ~TabIsInt(tabParam)
       THEN /\ page' = CrashPage
            /\ call' = NoCall
            /\ result' = NoResult
            /\ verified_key' = vk /\ verified_key_mask' = vmask
            /\ UNCHANGED <<now, ticks, secrets, key_states, sessions, log>>
       ELSE
       LET tab == TabInt(tabParam)
           first == RenderPass(tab, vk, vmask, latest, df, ticker, hist)
       IN  \E widget \in WidgetsOf(first) :
           \E text \in (IF widget = "confirm" THEN RawKeys ELSE {<<>>}) :
           IF widget = "confirm" /\ text # <<>>
           THEN \* result = validate_access_key(access_key)
                LET r == ValidateOutcome(text, key_states, now, secrets)
                IN  /\ call' = [by |-> "main", key |-> text]
                    /\ result' = r
                    /\ key_states' = ValidateStates(text, key_states, now, secrets)
                    /\ IF r = Raised
                       THEN /\ page' = CrashPage
                            /\ verified_key' = vk /\ verified_key_mask' = vmask
                       ELSE IF r.valid
                       THEN \* unlock, then st.rerun(): the script runs again
                            /\ verified_key' = text
                            /\ verified_key_mask' =
                                  IF "key_mask" \in DOMAIN r THEN r.key_mask ELSE mask_key(text)
                            /\ page' = RenderPass(tab, verified_key', verified_key_mask',
                                                  latest, df, ticker, hist)
                       ELSE /\ page' = [first EXCEPT !.msg = RejectionMessage(r)]
                            /\ verified_key' = vk /\ verified_key_mask' = vmask
                    /\ UNCHANGED <<now, ticks, secrets, sessions, log>>
           ELSE /\ page' = IF widget = "subscribe"
                           THEN \* st.query_params["tab"] = "3", then st.rerun()
                                RenderPass(3, vk, vmask, latest, df, ticker, hist)
                           ELSE first
                /\ call' = NoCall
                /\ result' = NoResult
                /\ verified_key' = vk /\ verified_key_mask' = vmask
                /\ UNCHANGED <<now, ticks, secrets, key_states, sessions, log>>

Validate == ValidateOf(RawKeys) /\ UNCHANGED log

\* the validator under direct calls
Next == AdvanceClock \/ Validate

Spec == Init /\ [][Next]_vars

\* a key validated in the session outside a pass of main()
ValidateEarlier == ValidateOf({KeyB}) /\ UNCHANGED log

\* the session gate: passes of main()
NextMain == AdvanceClock \/ ValidateEarlier \/ MainPass

SpecMain == Init /\ [][NextMain]_vars

\* ------------------------------------------------------------------ mask_key
MaxKeyLen == 13

RECURSIVE StringsUpTo(_, _)
StringsUpTo(alphabet, n) ==
    IF n = 0 THEN {<<>>}
    ELSE LET shorter == StringsUpTo(alphabet, n - 1)
         IN  shorter \cup {Append(s, c) : s \in {t \in shorter : Len(t) = n - 1}, c \in alphabet}

\* the keys mask_key is applied to: every string of two letters up to
\* MaxKeyLen characters, and the keys of the built-in list
MaskInputs == StringsUpTo({"A", "B"}, MaxKeyLen) \cup {KeyA, KeyB, KeyC}

InitMask == Init /\ ~secrets.present /\ ~secrets.raises

\* mask_key(k) called once
MaskCall ==
    /\ call = NoCall
    /\ \E k \in MaskInputs :
          /\ call' = [by |-> "mask_key", key |-> k]
          /\ result' = mask_key(k)
    /\ UNCHANGED <<now, ticks, secrets, key_states, verified_key, verified_key_mask, page, sessions, log>>

SpecMask == InitMask /\ [][MaskCall]_vars

\* ------------------------------------------------------------------ load_regime_history
MaxHistRows == 2

\* column names of regime_history.csv as the file spells them
Col_date == <<"d","a","t","e">>
Col_risk_on == <<"r","i","s","k","_","o","n">>
Col_date_padded == <<" ","d","a","t","e">>
Col_risk_on_padded == <<"r","i","s","k","_","o","n"," ">>

\* a pandas DataFrame: its column names and its rows, each row a tuple of cells
EmptyFrame == [columns |-> <<>>, rows |-> <<>>]

\* the rows a history file may hold: a date text and risk_on
HistoryRowKinds ==
    { <<Strftime(dt), r>> :
        dt \in { [y |-> 2026, m |-> 2, d |-> 1], [y |-> 2026, m |-> 2, d |-> 2],
                 [y |-> 2025, m |-> 12, d |-> 31], [y |-> 2026, m |-> 2, d |-> 28] },
        r \in {0, 1} }

RECURSIVE SeqsUpTo(_, _)
SeqsUpTo(S, n) ==
    IF n = 0 THEN {<<>>}
    ELSE LET shorter == SeqsUpTo(S, n - 1)
         IN  shorter \cup {Append(q, x) : q \in {t \in shorter : Len(t) = n - 1}, x \in S}

\* outcomes of requests.get(REGIME_HISTORY_URL, timeout=10): an exception (no
\* route, timeout, or a URL without scheme), a non-200 status, or a 200
\* response whose text is empty or a CSV file
HistoryResponses ==
    { [status |-> st, header |-> <<>>, rows |-> <<>>] : st \in {"exception", "404", "200"} }
    \cup [ status : {"200"},
           header : { <<Col_date, Col_risk_on>>, <<Col_date_padded, Col_risk_on_padded>> },
           rows : SeqsUpTo(HistoryRowKinds, MaxHistRows) ]

\* load_regime_history() on the response resp
load_regime_history(resp) ==
    IF resp.status # "200" THEN EmptyFrame
    ELSE IF resp.header = <<>> THEN EmptyFrame   \* read_csv raises on an empty text
    ELSE [ columns |-> [i \in 1..Len(resp.header) |-> Strip(resp.header[i])],
           rows |-> resp.rows ]

InitHistory == Init /\ ~secrets.present /\ ~secrets.raises

\* load_regime_history() called once
LoadHistory ==
    /\ call = NoCall
    /\ \E resp \in HistoryResponses :
          /\ call' = [by |-> "load_regime_history", key |-> resp]
          /\ result' = load_regime_history(resp)
    /\ UNCHANGED <<now, ticks, secrets, key_states, verified_key, verified_key_mask, page, sessions, log>>

SpecHistory == InitHistory /\ [][LoadHistory]_vars

\* ------------------------------------------------------------------ validate_access_key on any store
\* first_seen texts a session store may hold: of the start day, of a day 30
\* days before it, one that is no date, and an empty one
StoredTexts ==
    { Strftime(StartDate), Strftime([y |-> 2027, m |-> 12, d |-> 1]),
      <<"2","0","2","7","-","1","3","-","4","5">>, <<"n","e","v","e","r">>, <<>> }

\* the session stores of a single call: empty, or one record of KeyA or KeyC
StoreChoices ==
    {<<>>} \cup { [k \in {key} |-> [first_seen |-> fs]] : key \in {KeyA, KeyC}, fs \in StoredTexts }

InitStore ==
    /\ now = StartDate
    /\ ticks = 0
    /\ secrets \in SecretsChoices
    /\ key_states \in StoreChoices
    /\ verified_key = None
    /\ verified_key_mask = None
    /\ call = NoCall
    /\ result = NoResult
    /\ page = NoPage
    /\ sessions = <<>>
    /\ log = <<>>

\* validate_access_key called once
ValidateOnce == call = NoCall /\ ValidateOf(AllTexts) /\ UNCHANGED log

SpecStore == InitStore /\ [][ValidateOnce]_vars

\* ------------------------------------------------------------------ the other loaders
\* a loader that lets the exception of a failed request out
load_web_top10_unguarded(resp) ==
    IF resp.status = "exception" THEN Raised
    ELSE IF resp.status # "200" \/ resp.header = <<>> THEN EmptyFrame
    ELSE [ columns |-> [i \in 1..Len(resp.header) |-> Strip(resp.header[i])],
           rows |-> resp.rows ]

\* the text up to its first "\n": s.split('\n')[0]
RECURSIVE FirstLine(_)
FirstLine(s) ==
    IF s = <<>> \/ Head(s) = "\n" THEN <<>> ELSE <<Head(s)>> \o FirstLine(Tail(s))

Dir_a == <<"2","0","2","6","-","0","2","-","0","9","_","r","i","s","k","_","o","f","f">>
Dir_b == <<"2","0","2","6","-","0","2","-","0","8","_","r","i","s","k","_","o","n">>

\* outcomes of requests.get(LATEST_URL, timeout=10): an exception (the name is
\* not bound in the file, or a timeout), a non-200 status, or a 200 response
\* with the text of LATEST.txt
LatestResponses ==
    [ status : {"exception", "404", "500", "200"},
      text : { <<>>, <<"\n">>, Dir_a, Dir_a \o <<"\n">> \o Dir_b,
               <<" ">> \o Dir_a \o <<" ", "\n">> \o Dir_b \o <<"\n">>,
               <<"\n">> \o Dir_b } ]

\* load_latest_dir() on the response resp
load_latest_dir(resp) ==
    IF resp.status # "200" THEN None
    ELSE Strip(FirstLine(Strip(resp.text)))

\* outcomes of the request of regime_snapshot.json: the body is a JSON
\* object or text that resp.json() cannot parse
SnapshotResponses ==
    [ status : {"exception", "404", "500", "200"},
      json_ok : BOOLEAN,
      body : [ date : {Strftime([y |-> 2026, m |-> 2, d |-> 9])},
               risk_flag : {"risk_on", "risk_off"},
               risk_value : {0, 1} ] ]

\* load_regime_snapshot(latest_dir) on the response resp
load_regime_snapshot(resp) ==
    IF resp.status # "200" THEN None
    ELSE IF ~resp.json_ok THEN None          \* resp.json() raises, caught
    ELSE resp.body

\* column names of web_top10.csv as the file spells them
Col_Rank == <<"R","a","n","k">>
Col_Symbol == <<"S","y","m","b","o","l">>
Col_Rank_padded == <<" ","R","a","n","k">>
Col_Symbol_padded == <<"S","y","m","b","o","l"," ">>

\* the rows a web_top10.csv file may hold: a rank and a symbol
TopRowKinds == { <<r, <<s>>>> : r \in {1, 2}, s \in {"A", "B"} }

\* outcomes of the request of web_top10.csv
TopResponses ==
    { [status |-> st, header |-> <<>>, rows |-> <<>>] : st \in {"exception", "404", "200"} }
    \cup [ status : {"200"},
           header : { <<Col_Rank, Col_Symbol>>, <<Col_Rank_padded, Col_Symbol_padded>>,
                      <<Col_Symbol>> },
           rows : SeqsUpTo(TopRowKinds, MaxHistRows) ]

\* load_web_top10(latest_dir) on the response resp
load_web_top10(resp) ==
    IF resp.status # "200" THEN EmptyFrame
    ELSE IF resp.header = <<>> THEN EmptyFrame   \* read_csv raises on an empty text
    ELSE [ columns |-> [i \in 1..Len(resp.header) |-> Strip(resp.header[i])],
           rows |-> resp.rows ]

\* row.get(name, default) of a row of a frame with these column names
RowGet(columns, row, name, default) ==
    IF \E c \in 1..Len(columns) : columns[c] = name
    THEN row[CHOOSE c \in 1..Len(columns) : columns[c] = name]
    ELSE default

\* load_regime_latest() on the response resp: the first row of
\* regime_latest.csv as a dict, the column names taken as the file spells them
load_regime_latest(resp) ==
    IF resp.status # "200" \/ resp.header = <<>> \/ resp.rows = <<>> THEN None
    ELSE [ date |-> RowGet(resp.header, resp.rows[1], Col_date, <<>>),
           risk_on |-> RowGet(resp.header, resp.rows[1], Col_risk_on, 0) ]

\* load_latest_dir() called once
LoadLatestDir ==
    /\ call = NoCall
    /\ \E resp \in LatestResponses :
          /\ call' = [by |-> "load_latest_dir", key |-> resp]
          /\ result' = load_latest_dir(resp)
    /\ UNCHANGED <<now, ticks, secrets, key_states, verified_key, verified_key_mask, page, sessions, log>>

\* load_regime_snapshot(latest_dir) called once
LoadSnapshot ==
    /\ call = NoCall
    /\ \E resp \in SnapshotResponses :
          /\ call' = [by |-> "load_regime_snapshot", key |-> resp]
          /\ result' = load_regime_snapshot(resp)
    /\ UNCHANGED <<now, ticks, secrets, key_states, verified_key, verified_key_mask, page, sessions, log>>

\* load_web_top10(latest_dir) called once
LoadTop10 ==
    /\ call = NoCall
    /\ \E resp \in TopResponses :
          /\ call' = [by |-> "load_web_top10", key |-> resp]
          /\ result' = load_web_top10(resp)
    /\ UNCHANGED <<now, ticks, secrets, key_states, verified_key, verified_key_mask, page, sessions, log>>

\* load_regime_latest() called once
LoadLatest ==
    /\ call = NoCall
    /\ \E resp \in HistoryResponses :
          /\ call' = [by |-> "load_regime_latest", key |-> resp]
          /\ result' = load_regime_latest(resp)
    /\ UNCHANGED <<now, ticks, secrets, key_states, verified_key, verified_key_mask, page, sessions, log>>

\* each loader called once on each outcome of its request
NextLoaders == LoadLatestDir \/ LoadSnapshot \/ LoadTop10 \/ LoadHistory \/ LoadLatest
SpecLoaders == InitHistory /\ [][NextLoaders]_vars

\* ------------------------------------------------------------------ render_history_page
MaxFileRows == 32

\* df_history.tail(30)
RecentRows == 30

\* the risk_on cell of a row whose cell is empty in the file: read_csv makes
\* it the float NaN, which int() does not convert
NaN == -1

\* how the risk_on column of a history file runs over its rows 1..n
RiskPatterns == {"on", "off", "alternate", "first_missing", "last_missing"}

RiskOf(pattern, i, n) ==
    CASE pattern = "on" -> 1
      [] pattern = "off" -> 0
      [] pattern = "alternate" -> i % 2
      [] pattern = "first_missing" -> IF i = 1 THEN NaN ELSE 1
      [] pattern = "last_missing" -> IF i = n THEN NaN ELSE i % 2

\* what load_regime_history() hands to the page: n rows of consecutive
\* days, in file order
HistoryFramesOf(n, pattern) ==
    IF n = 0 THEN EmptyFrame
    ELSE [ columns |-> <<Col_date, Col_risk_on>>,
           rows |-> [i \in 1..n |->
                       <<Strftime(AddDays([y |-> 2026, m |-> 1, d |-> 1], i)),
                         RiskOf(pattern, i, n)>>] ]

HistoryPageInputs == { HistoryFramesOf(n, p) : n \in 0..MaxFileRows, p \in RiskPatterns }

\* df.tail(k) of the rows
TailRows(rows, k) ==
    IF Len(rows) <= k THEN rows ELSE SubSeq(rows, Len(rows) - k + 1, Len(rows))

\* df.iloc[::-1] of the rows
ReverseRows(rows) == [i \in 1..Len(rows) |-> rows[Len(rows) + 1 - i]]

RECURSIVE SumRiskOn(_)
SumRiskOn(rows) == IF rows = <<>> THEN 0 ELSE Head(rows)[2] + SumRiskOn(Tail(rows))

\* render_history_page(df_history, latest): the rows of its table top down
\* and its three statistics; "placeholder" for an empty frame or one without a
\* date column, "exception" when int() of a row's risk_on raises
render_history_page(df) ==
    IF df.rows = <<>> \/ ~(\E c \in 1..Len(df.columns) : df.columns[c] = Col_date)
    THEN [kind |-> "placeholder", rows |-> <<>>]
    ELSE LET df_recent == ReverseRows(TailRows(df.rows, RecentRows))
             total_days == Len(df_recent)
             on_days == SumRiskOn(df_recent)
         IN  IF \E i \in 1..Len(df_recent) : df_recent[i][2] = NaN
             THEN [kind |-> "exception", rows |-> <<>>]
             ELSE [kind |-> "history", rows |-> df_recent,
                   total_days |-> total_days, on_days |-> on_days,
                   off_days |-> total_days - on_days]

\* render_history_page called once
RenderHistory ==
    /\ call = NoCall
    /\ \E df \in HistoryPageInputs :
          /\ call' = [by |-> "render_history_page", key |-> df]
          /\ result' = render_history_page(df)
    /\ UNCHANGED <<now, ticks, secrets, key_states, verified_key, verified_key_mask, page, sessions, log>>

SpecHistoryPage == InitHistory /\ [][RenderHistory]_vars

\* ------------------------------------------------------------------ render_signal_table
\* the frames render_signal_table is given: with or without the Rank and
\* Symbol columns, 0..MaxRows rows, any one row (or none) with a cell that
\* float() does not read
TableInputs ==
    { df \in [cols : SUBSET {"Rank", "Symbol"}, n : 0..MaxRows, nonnum : 0..MaxRows] :
        df.nonnum <= df.n }

\* render_signal_table called once
RenderTable ==
    /\ call = NoCall
    /\ \E df \in TableInputs, unlocked \in BOOLEAN, limit \in 1..MaxRows :
          /\ call' = [by |-> "render_signal_table",
                      key |-> [df |-> df, unlocked |-> unlocked, limit |-> limit]]
          /\ result' = render_signal_table(df, unlocked, limit)
    /\ UNCHANGED <<now, ticks, secrets, key_states, verified_key, verified_key_mask, page, sessions, log>>

SpecTable == InitHistory /\ [][RenderTable]_vars

\* ------------------------------------------------------------------ several sessions
MaxSessions == 2
SessionIds == 1..MaxSessions

\* st.session_state of a session main() has just initialised: no key_states,
\* verified_key and verified_key_mask None
FreshSession == [key_states |-> <<>>, verified_key |-> None, verified_key_mask |-> None]

\* a store shared by the whole process
SessionWriteShared(ss, s, store) == [t \in DOMAIN ss \cup {s} |-> store]

\* an assignment to st.session_state in a script run of session s: it lands
\* in the store of that session
SessionWrite(ss, s, store) ==
    [t \in DOMAIN ss \cup {s} |-> IF t = s THEN store ELSE ss[t]]

\* the texts submitted in the sessions
SessionTexts == {KeyA, KeyA_lower, KeyX}

\* a browser connects: main() initialises its session state
OpenSession ==
    /\ \E s \in SessionIds \ DOMAIN sessions :
          /\ sessions' = SessionWrite(sessions, s, FreshSession)
          /\ call' = [by |-> "open", key |-> <<>>, sid |-> s]
    /\ result' = NoResult
    /\ page' = NoPage
    /\ UNCHANGED <<now, ticks, secrets, key_states, verified_key, verified_key_mask, log>>

\* a locked session submits a text in its access input: validate_access_key
\* and, when valid, the unlock, on the session state of that session
SubmitIn ==
    /\ \E s \in DOMAIN sessions, text \in SessionTexts :
          LET store == sessions[s]
              r == ValidateOutcome(text, store.key_states, now, secrets)
              valid == r # Raised /\ r.valid
          IN  /\ store.verified_key = None
              /\ sessions' = SessionWrite(sessions, s,
                    [ key_states |-> ValidateStates(text, store.key_states, now, secrets),
                      verified_key |-> IF valid THEN text ELSE store.verified_key,
                      verified_key_mask |-> IF valid THEN r.key_mask
                                            ELSE store.verified_key_mask ])
              /\ call' = [by |-> "session", key |-> text, sid |-> s]
              /\ result' = r
    /\ page' = NoPage
    /\ UNCHANGED <<now, ticks, secrets, key_states, verified_key, verified_key_mask, log>>

NextSessions == AdvanceClock \/ OpenSession \/ SubmitIn
SpecSessions == Init /\ [][NextSessions]_vars

\* ------------------------------------------------------------------ format_percent_from_raw
MaxCents == 9

\* the placeholder of a value that cannot be shown: the one character
\* U+2014 (em dash)
Dash == <<"[em dash]">>

\* a cell of a frame: a missing value (NaN), a float, or a text. A float is
\* kept as its sign and its magnitude in hundredths, so that -0.0 is a value
\* of its own as it is for Python
MissingCell == [kind |-> "nan", neg |-> FALSE, cents |-> 0, text |-> <<>>]
FloatCell(neg, cents) == [kind |-> "float", neg |-> neg, cents |-> cents, text |-> <<>>]
TextCell(text) == [kind |-> "str", neg |-> FALSE, cents |-> 0, text |-> text]

\* decimal digits of a natural number
RECURSIVE NatDigits(_)
NatDigits(n) == IF n < 10 THEN <<Digit(n)>> ELSE Append(NatDigits(n \div 10), Digit(n % 10))

\* value of a sequence of digits
RECURSIVE DigitsVal(_)
DigitsVal(ds) ==
    IF ds = <<>> THEN 0 ELSE DigitsVal(SubSeq(ds, 1, Len(ds) - 1)) * 10 + DigitVal(ds[Len(ds)])

\* f"{val:.2f}" of a float: its sign when negative (negative zero included),
\* the integer part, a point and two decimals
Format2f(neg, cents) ==
    (IF neg THEN <<"-">> ELSE <<>>) \o NatDigits(cents \div 100)
        \o <<".", Digit((cents % 100) \div 10), Digit(cents % 10)>>

\* str(x) of a float: the shortest decimal, with one decimal at least
StrOfFloat(neg, cents) ==
    (IF neg THEN <<"-">> ELSE <<>>) \o NatDigits(cents \div 100) \o <<".">>
        \o (IF cents % 10 = 0 THEN <<Digit((cents % 100) \div 10)>>
            ELSE <<Digit((cents % 100) \div 10), Digit(cents % 10)>>)

\* s.replace(c, '')
RECURSIVE RemoveChar(_, _)
RemoveChar(s, c) ==
    IF s = <<>> THEN <<>>
    ELSE (IF Head(s) = c THEN <<>> ELSE <<Head(s)>>) \o RemoveChar(Tail(s), c)

\* float(s) of a text: surrounding whitespace dropped, an optional sign,
\* digits with at most one point and one digit at least; anything else
\* raises ValueError (ok is FALSE). Decimals after the second are not kept:
\* the texts of the model have two at most
ParseFloat(s) ==
    LET t == Strip(s)
        signed == t # <<>> /\ Head(t) \in {"+", "-"}
        body == IF signed THEN Tail(t) ELSE t
        points == {i \in 1..Len(body) : body[i] = "."}
        p == IF points = {} THEN Len(body) + 1 ELSE CHOOSE i \in points : TRUE
        int == SubSeq(body, 1, p - 1)
        frac == SubSeq(body, p + 1, Len(body))
        ok == /\ Cardinality(points) <= 1
              /\ \A i \in 1..Len(int) : IsDigit(int[i])
              /\ \A i \in 1..Len(frac) : IsDigit(frac[i])
              /\ Len(int) + Len(frac) >= 1
    IN  IF ~ok THEN [ok |-> FALSE, neg |-> FALSE, cents |-> 0]
        ELSE [ ok |-> TRUE,
               neg |-> signed /\ Head(t) = "-",
               cents |-> DigitsVal(int) * 100
                         + (IF Len(frac) >= 1 THEN DigitVal(frac[1]) * 10 ELSE 0)
                         + (IF Len(frac) >= 2 THEN DigitVal(frac[2]) ELSE 0) ]

\* format_percent_from_raw that takes the sign from the text and from the number
format_percent_from_raw_twice(raw) ==
    IF raw.kind = "nan" THEN Dash
    ELSE LET val_str == RemoveChar(Strip(IF raw.kind = "float"
                                         THEN StrOfFloat(raw.neg, raw.cents)
                                         ELSE raw.text), "%")
             val == ParseFloat(val_str)
         IN  IF ~val.ok THEN Dash
             ELSE (IF val.neg THEN <<"-">> ELSE <<"+">>)
                      \o Format2f(val.neg, val.cents) \o <<"%">>

\* format_percent_from_raw(raw_value)
format_percent_from_raw(raw) ==
    IF raw.kind = "nan" THEN Dash
    ELSE LET val_str == RemoveChar(Strip(IF raw.kind = "float"
                                         THEN StrOfFloat(raw.neg, raw.cents)
                                         ELSE raw.text), "%")
             val == ParseFloat(val_str)
         IN  IF ~val.ok THEN Dash      \* float() raised, caught
             ELSE (IF ~val.neg /\ val.cents > 0 THEN <<"+">> ELSE <<>>)
                      \o Format2f(val.neg, val.cents) \o <<"%">>

\* format_percent(value) with decimals = 2
format_percent(value) ==
    IF value.kind = "nan" THEN Dash
    ELSE (IF ~value.neg /\ value.cents > 0 THEN <<"+">> ELSE <<>>)
             \o Format2f(value.neg, value.cents) \o <<"%">>

\* magnitudes of the model, in hundredths: 0.00 to 0.09, 3.25 and 10.00
PercentCents == 0..MaxCents \cup {325, 1000}

\* a percent text: a sign prefix, the number with two decimals, a suffix
PercentText(prefix, cents, suffix) == prefix \o Format2f(FALSE, cents) \o suffix

\* texts that are no number
JunkTexts ==
    { <<>>, <<"%">>, <<"-">>, <<"N","/","A">>, <<"a","b","c","%">>,
      <<"3",".","2",".","5">>, <<"-","-","1">>, <<" ">> }

FloatCells == { FloatCell(neg, c) : neg \in BOOLEAN, c \in PercentCents }

PercentCells ==
    {MissingCell} \cup FloatCells
    \cup { TextCell(PercentText(prefix, c, suffix)) :
             prefix \in {<<>>, <<"+">>, <<"-">>}, c \in PercentCents,
             suffix \in {<<>>, <<"%">>} }
    \cup { TextCell(t) : t \in JunkTexts }

InitFormat == Init /\ ~secrets.present /\ ~secrets.raises

\* format_percent_from_raw called once
FormatRaw ==
    /\ call = NoCall
    /\ \E raw \in PercentCells :
          /\ call' = [by |-> "format_percent_from_raw", key |-> raw]
          /\ result' = format_percent_from_raw(raw)
    /\ UNCHANGED <<now, ticks, secrets, key_states, verified_key, verified_key_mask, page, sessions, log>>

\* format_percent called once
FormatPercent ==
    /\ call = NoCall
    /\ \E value \in {MissingCell} \cup FloatCells :
          /\ call' = [by |-> "format_percent", key |-> value]
          /\ result' = format_percent(value)
    /\ UNCHANGED <<now, ticks, secrets, key_states, verified_key, verified_key_mask, page, sessions, log>>

NextFormat == FormatRaw \/ FormatPercent
SpecFormat == InitFormat /\ [][NextFormat]_vars

\* ------------------------------------------------------------------ the results of a session's validate calls
\* the texts validated in the logged session
LoggedTexts == {KeyA_lower, KeyB, KeyX}

\* the log after validate_access_key(raw) returned r: for the key of the call,
\* how many expired results it got so far (counted up to 2) and the
\* days_remaining of its last valid result (<<>> when it had none)
LogAfter(lg, raw, r) ==
    LET key == NormalizedKey[raw]
        old == IF key \in DOMAIN lg THEN lg[key] ELSE [expired |-> 0, remaining |-> <<>>]
        new == [ expired |-> IF "expired" \in DOMAIN r THEN Min(old.expired + 1, 2)
                             ELSE old.expired,
                 remaining |-> IF "days_remaining" \in DOMAIN r THEN <<r.days_remaining>>
                               ELSE old.remaining ]
    IN  [k \in DOMAIN lg \cup {key} |-> IF k = key THEN new ELSE lg[k]]

\* validate_access_key(raw) called on its own, its result logged
ValidateLogged ==
    /\ ValidateOf(LoggedTexts)
    /\ log' = LogAfter(log, call'.key, result')

\* validate calls of one session as the days go by
NextExpiry == AdvanceClock \/ ValidateLogged
SpecExpiry == Init /\ [][NextExpiry]_vars

\* ================================================================== claims
\* each submitted text trimmed and uppercased
TrimUpper == [r \in AllTexts |-> Upper(Strip(r))]

\* the submitted text of the last call, trimmed and uppercased
CallKey == TrimUpper[call.key]

\* the last step called validate_access_key
Validated == call.by \in {"direct", "main"}

\* k is on the effective allow-list
Listed(k) == InSeq(k, ValidKeys(secrets))

\* whole days from the recorded first_seen of k to today
Elapsed(k) == Ymd2Ord(now) - Ymd2Ord(Strptime(key_states[k].first_seen))

Stars == <<"*","*","*","*">>

\* C1: a text whose trimmed, uppercased form is not on the effective
\* allow-list is rejected (valid = false), whatever the session holds and
\* whatever the day is.
C1_RejectsUnlisted ==
    (Validated /\ ~Listed(CallKey)) => result.valid = FALSE

\* a key of the built-in list rejected under a configured list, on a later
\* day, in a session that holds a record of another key
C1_Witness ==
    /\ call.by = "direct" /\ call.key = KeyB
    /\ secrets.present /\ secrets.keys # <<>>
    /\ KeyA \in DOMAIN key_states /\ ticks > 0
    /\ result.valid = FALSE

\* C2: the first validate(K) of an allow-listed key records the current date
\* as first_seen; no later step changes or removes a recorded first_seen, and
\* every validate(K) that reports a first_seen reports the recorded one.
C2_FirstSeenImmutable ==
    [][ /\ \A k \in DOMAIN key_states :
              k \in DOMAIN key_states' /\ key_states'[k] = key_states[k]
        /\ \A k \in DOMAIN key_states' \ DOMAIN key_states :
              /\ call'.by \in {"direct", "main"} /\ TrimUpper[call'.key] = k
              /\ key_states'[k].first_seen = Strftime(now)
        /\ (call'.by \in {"direct", "main"} /\ "first_seen" \in DOMAIN result')
              => /\ TrimUpper[call'.key] \in DOMAIN key_states'
                 /\ result'.first_seen = key_states'[TrimUpper[call'.key]].first_seen
      ]_vars

\* a key validated again on a later day reports the first day
C2_Witness ==
    /\ Validated /\ "first_seen" \in DOMAIN result
    /\ result.valid
    /\ result.first_seen = Strftime(StartDate)
    /\ result.first_seen # Strftime(now)

\* C3: an allow-listed key whose first_seen is 30 or more whole days back is
\* reported as valid = false, expired = true with the recorded first_seen and
\* nothing else (no days_remaining, no key_mask).
C3_ExpiredAtThirty ==
    (Validated /\ Listed(CallKey) /\ CallKey \in DOMAIN key_states /\ Elapsed(CallKey) >= 30)
        => result = [valid |-> FALSE, expired |-> TRUE,
                     first_seen |-> key_states[CallKey].first_seen]

\* a key validated exactly 30 days after its first_seen
C3_Witness ==
    /\ Validated /\ CallKey \in DOMAIN key_states
    /\ Elapsed(CallKey) = 30
    /\ "expired" \in DOMAIN result /\ result.expired

\* C4: an allow-listed key with e in 0..29 whole days since first_seen is
\* valid with days_remaining = 30 - e, so days_remaining is in 1..30.
C4_DaysRemaining ==
    (Validated /\ Listed(CallKey))
        => /\ CallKey \in DOMAIN key_states
           /\ Elapsed(CallKey) \in 0..29
                 => /\ result.valid
                    /\ result.days_remaining = 30 - Elapsed(CallKey)
                    /\ result.days_remaining \in 1..30

\* a key validated 29 days after its first_seen has one day left
C4_Witness ==
    /\ Validated /\ CallKey \in DOMAIN key_states
    /\ Elapsed(CallKey) = 29
    /\ result.valid /\ result.days_remaining = 1

\* C6: validate(r) returns what validate of the trimmed, uppercased r returns
\* and leaves the session store as that call would; a new first_seen record
\* is stored under the trimmed, uppercased key.
C6_Normalizes ==
    [][ call'.by = "direct" =>
          LET n == TrimUpper[call'.key]
          IN  /\ result' = ValidateResult(n, key_states, now, secrets)
              /\ key_states' = ValidateStates(n, key_states, now, secrets)
              /\ DOMAIN key_states' \subseteq DOMAIN key_states \cup {n}
      ]_vars

\* the padded lower-case spelling of a key shares the first_seen recorded
\* under its upper-case spelling on an earlier day
C6_Witness ==
    /\ call.by = "direct" /\ call.key = KeyA_lower
    /\ result.valid
    /\ DOMAIN key_states = {KeyA}
    /\ result.first_seen = key_states[KeyA].first_seen
    /\ result.first_seen # Strftime(now)

\* C5: a page shows the full signal table (more than the 2-row preview) or
\* the price chart only in a session whose verified_key is set; verified_key
\* is set only in a pass of main() whose validate_access_key call returned
\* valid = true, to the text of that call; a pass whose call was rejected
\* or expired leaves the session locked.
C5_Gate ==
    [][ /\ (page'.table = "full" \/ Len(page'.rows) > 2 \/ page'.chart)
              => verified_key' # None
        /\ verified_key' # verified_key
              => /\ verified_key = None
                 /\ call'.by = "main" /\ result'.valid
                 /\ verified_key' = call'.key
        /\ (call'.by = "main" /\ ~result'.valid)
              => /\ verified_key' = None /\ verified_key_mask' = None
                 /\ page'.table # "full" /\ ~page'.chart /\ Len(page'.rows) <= 2
      ]_vars

\* the pass that unlocks the session shows the full table
C5_Witness ==
    /\ call.by = "main" /\ result.valid
    /\ verified_key = call.key
    /\ page.table = "full" /\ Len(page.rows) > 2

\* C7: mask_key never shows the whole key: the key cannot be read off the
\* returned text by leaving out its "****".
C7_NeverRevealsFullKey ==
    (call.by = "mask_key" /\ call.key # <<>>)
        => ~ \E i \in 0..(Len(result) - 4) :
                /\ SubSeq(result, i + 1, i + 4) = Stars
                /\ SubSeq(result, 1, i) \o SubSeq(result, i + 5, Len(result)) = call.key

\* C8: mask_key(k) is the first 8 characters of k, "****" and the last 4
\* characters of k when len(k) >= 12, and the first 6 characters of k (all
\* of k when it is shorter) and "****" otherwise; for "EF-26Q1-A9F4KZ2M" it
\* is "EF-26Q1-****KZ2M".
C8_MaskShape ==
    call.by = "mask_key" =>
        LET k == call.key
            n == Len(call.key)
        IN  /\ n >= 12 =>
                 /\ Len(result) = 16
                 /\ \A i \in 1..8 : result[i] = k[i]
                 /\ \A i \in 9..12 : result[i] = "*"
                 /\ \A i \in 1..4 : result[12 + i] = k[n - 4 + i]
            /\ n < 12 =>
                 /\ Len(result) = Min(n, 6) + 4
                 /\ \A i \in 1..Min(n, 6) : result[i] = k[i]
                 /\ \A i \in 1..4 : result[Min(n, 6) + i] = "*"
            /\ k = KeyA => result = <<"E","F","-","2","6","Q","1","-","*","*","*","*","K","Z","2","M">>

\* the mask of the first built-in key
C8_Witness ==
    /\ call.by = "mask_key" /\ call.key = KeyA
    /\ result = <<"E","F","-","2","6","Q","1","-","*","*","*","*","K","Z","2","M">>

Col_effective_date == <<"e","f","f","e","c","t","i","v","e","_","d","a","t","e">>

\* C9: for a history file with rows that loads, load_history returns one row per row of
\* the file, in file order, each with the file's date and an effective_date
\* that is the calendar day after it.
C9_EffectiveDate ==
    (call.by = "load_regime_history" /\ call.key.status = "200" /\ Len(call.key.rows) > 0)
        => /\ Len(result.rows) = Len(call.key.rows)
           /\ \E c \in 1..Len(result.columns) :
                 /\ result.columns[c] = Col_effective_date
                 /\ \A i \in 1..Len(result.rows) :
                       /\ result.rows[i][1] = call.key.rows[i][1]
                       /\ result.rows[i][c] =
                             Strftime(NextDay(Strptime(call.key.rows[i][1])))

\* C10: validate_access_key changes the session only by adding the first_seen
\* record of an allow-listed key that had none: a call with another text, or
\* for a key that has a record, leaves key_states as it was; no call touches
\* the record of another key, and a call leaves verified_key and
\* verified_key_mask alone.
C10_Frame ==
    [][ call'.by \in {"direct", "main"} =>
          LET n == TrimUpper[call'.key]
          IN  /\ ~InSeq(n, ValidKeys(secrets)) => key_states' = key_states
              /\ n \in DOMAIN key_states => key_states' = key_states
              /\ DOMAIN key_states' \subseteq DOMAIN key_states \cup {n}
              /\ \A k \in DOMAIN key_states :
                    k \in DOMAIN key_states' /\ key_states'[k] = key_states[k]
              /\ call'.by = "direct" =>
                    /\ verified_key' = verified_key
                    /\ verified_key_mask' = verified_key_mask
      ]_vars

\* an expired key validated in an unlocked session that holds two records
C10_Witness ==
    /\ call.by = "direct"
    /\ "expired" \in DOMAIN result
    /\ verified_key # None
    /\ Cardinality(DOMAIN key_states) = 2

\* C13: nothing in a page pass is fatal: whatever the tab parameter, the
\* session and the loaders' outputs, a run of main() ends in a rendered page,
\* never in an uncaught exception.
C13_PassCompletes == page.kind # "exception"

\* C11: validate_access_key never raises: whatever the text, the secrets
\* store (unreadable included) and the session store (a first_seen that is no
\* date included), it returns a dict whose valid field, and expired field
\* when present, carry the outcome.
C11_NeverRaises ==
    Validated =>
        /\ result # Raised
        /\ "valid" \in DOMAIN result /\ result.valid \in BOOLEAN
        /\ "expired" \in DOMAIN result => (result.expired = TRUE /\ ~result.valid)

\* a key whose stored first_seen is no date, validated with an unreadable
\* secrets store
C11_Witness ==
    /\ call.by = "direct" /\ call.key = KeyA
    /\ secrets.raises
    /\ KeyA \in DOMAIN key_states /\ ~StrptimeOk(key_states[KeyA].first_seen)
    /\ key_states[KeyA].first_seen # <<>>
    /\ result.valid /\ result.days_remaining = 30

\* the request of a loader failed: it raised or answered another status than 200
RequestFailed == call.key.status # "200"

\* C12: every loader is fail-soft: when the request raises (missing source,
\* timeout, I/O error), answers a non-200 status, or the body does not parse,
\* load_latest_dir, load_regime_snapshot and load_regime_latest return None
\* and load_web_top10 and load_regime_history return an empty table; the
\* top-signal loader returns a table with no rows for an absent or empty file.
C12_FailSoft ==
    /\ call.by = "load_latest_dir" => (RequestFailed => result = None)
    /\ call.by = "load_regime_snapshot" =>
          ((RequestFailed \/ ~call.key.json_ok) => result = None)
    /\ call.by = "load_regime_latest" =>
          ((RequestFailed \/ call.key.header = <<>>) => result = None)
    /\ call.by \in {"load_web_top10", "load_regime_history"} =>
          /\ (RequestFailed \/ call.key.header = <<>>) => result = EmptyFrame
          /\ call.key.rows = <<>> => (result # Raised /\ result.rows = <<>>)

\* the top-signal request raised and the loader returned the empty table
C12_Witness ==
    /\ call.by = "load_web_top10" /\ call.key.status = "exception"
    /\ result = EmptyFrame

\* C14: the history page shows exactly the last min(30, n) of the n loaded
\* records, newest first (reverse file order), and its statistics satisfy
\* on_days + off_days = total_days = min(30, n).
C14_LastThirty ==
    call.by = "render_history_page" =>
        LET n == Len(call.key.rows)
            k == Min(30, n)
        IN  /\ Len(result.rows) = k
            /\ \A i \in 1..k : result.rows[i] = call.key.rows[n + 1 - i]
            /\ n > 0 => /\ result.kind = "history"
                        /\ result.total_days = k
                        /\ result.on_days + result.off_days = result.total_days

\* the same for files whose rows all have a risk_on value
C14_CompleteRows ==
    (call.by = "render_history_page"
        /\ \A i \in 1..Len(call.key.rows) : call.key.rows[i][2] # NaN)
    => C14_LastThirty

\* C15: in locked mode with limit 2 the signal table shows at most the first
\* two rows of the loaded frame, in loaded order, never the full table; for a
\* frame with no rows or no Rank column it renders the no-data placeholder,
\* with no row gone through and no failure.
C15_LockedPreview ==
    (call.by = "render_signal_table" /\ ~call.key.unlocked /\ call.key.limit = 2) =>
        /\ Len(result.rows) <= 2
        /\ \A i \in 1..Len(result.rows) : result.rows[i] = i
        /\ result.table # "full"
        /\ (call.key.df.n = 0 \/ "Rank" \notin call.key.df.cols)
              => (result.table = "placeholder" /\ result.rows = <<>>)

\* a locked table of a frame of MaxRows rows: its first two
C15_Witness ==
    /\ call.by = "render_signal_table" /\ ~call.key.unlocked /\ call.key.limit = 2
    /\ call.key.df.n = MaxRows
    /\ result.table = "preview" /\ result.rows = <<1, 2>>

\* C16: session state is scoped to the session: a step on behalf of one
\* session (its validate call, its unlock, its start) leaves key_states,
\* verified_key and verified_key_mask of every other open session as they
\* were, whatever the interleaving, and a session starts with no record.
C16_SessionScoped ==
    [][ /\ \A s \in DOMAIN sessions :
              \/ call'.by = "session" /\ call'.sid = s
              \/ sessions'[s] = sessions[s]
        /\ \A s \in DOMAIN sessions' \ DOMAIN sessions :
              sessions'[s] = FreshSession ]_vars

\* the same key first seen on different days in two sessions, one of them
\* unlocked after the other
C16_Witness ==
    /\ DOMAIN sessions = {1, 2}
    /\ KeyA \in DOMAIN sessions[1].key_states /\ KeyA \in DOMAIN sessions[2].key_states
    /\ sessions[1].key_states[KeyA].first_seen # sessions[2].key_states[KeyA].first_seen
    /\ sessions[1].verified_key = KeyA /\ sessions[2].verified_key = KeyA_lower
    /\ call.by = "session" /\ call.sid = 2

\* the pages a pass renders for a locked session, whatever is submitted
LockedPages ==
    { RenderPass(TabInt(t), None, None, latest, df, ticker, hist) :
        t \in {"0", "1", "2", "3"}, latest \in LatestDirs,
        df \in TopTables \cup {NoTable}, ticker \in BOOLEAN, hist \in HistoryFrames }

\* C17: the page does not tell why a key was rejected: whether the submitted
\* key is not on the allow-list or is listed and expired, the pass leaves
\* verified_key and verified_key_mask as they were (the session stays
\* locked) and renders the page of a locked session with the one generic
\* error message.
C17_NoReasonLeak ==
    [][ (call'.by = "main" /\ result' # Raised /\ ~result'.valid) =>
            /\ verified_key' = verified_key /\ verified_key' = None
            /\ verified_key_mask' = verified_key_mask
            /\ page'.msg = "error"
            /\ [page' EXCEPT !.msg = "none"] \in LockedPages ]_vars

\* a listed key rejected as expired by a pass of main()
C17_Witness ==
    /\ call.by = "main" /\ "expired" \in DOMAIN result
    /\ page.msg = "error" /\ verified_key = None

\* C18: the allow-list in force is access_keys.keys when it is configured and
\* not empty, and the three built-in keys otherwise: with a configured list a
\* built-in key that is not on it is rejected, and with the secrets store
\* missing, unreadable or holding an empty list exactly the three built-in
\* keys are accepted (valid, or expired when their 30 days are over).
C18_AllowList ==
    Validated =>
        LET configured == ~secrets.raises /\ secrets.present /\ secrets.keys # <<>>
            onList == IF configured
                      THEN \E i \in 1..Len(secrets.keys) : secrets.keys[i] = CallKey
                      ELSE CallKey \in {KeyA, KeyB, KeyC}
        IN  /\ result.valid => onList
            /\ onList => (result.valid \/ "expired" \in DOMAIN result)
            /\ ~onList => result = [valid |-> FALSE]

\* a built-in key rejected because a configured list does not hold it
C18_Witness ==
    /\ call.by = "direct" /\ call.key = KeyC
    /\ secrets.present /\ secrets.keys = <<KeyA, KeyD>>
    /\ result = [valid |-> FALSE]

\* the third built-in key accepted when the secrets store cannot be read
C18_WitnessFallback ==
    /\ call.by = "direct" /\ call.key = KeyC /\ secrets.raises
    /\ result.valid

\* number of times the character c occurs in s
Count(s, c) == Cardinality({i \in 1..Len(s) : s[i] = c})

\* the argument of the call is the number zero, as a float or as a text, and
\* whether it is written with a minus sign
ArgIsZero ==
    \/ call.key.kind = "float" /\ call.key.cents = 0
    \/ call.key.kind = "str" /\ \E prefix \in {<<>>, <<"+">>, <<"-">>}, suffix \in {<<>>, <<"%">>} :
          call.key.text = PercentText(prefix, 0, suffix)
ArgHasMinus ==
    \/ call.key.kind = "float" /\ call.key.neg
    \/ call.key.kind = "str" /\ Count(call.key.text, "-") > 0

\* what C19 says of every value but zero
C19_Rest ==
    /\ call.key = TextCell(<<"-","3",".","2","5","%">>) =>
          result = <<"-","3",".","2","5","%">>
    /\ call.key = FloatCell(FALSE, 325) => result = <<"+","3",".","2","5","%">>
    /\ (call.key.kind = "nan" \/ (call.key.kind = "str" /\ call.key.text \in JunkTexts))
          => result = Dash
    /\ (call.key.kind = "float" /\ call.key.cents > 0) =>
          /\ Count(result, "-") = (IF call.key.neg THEN 1 ELSE 0)
          /\ Count(result, "+") = (IF call.key.neg THEN 0 ELSE 1)
    /\ \A prefix \in {<<>>, <<"+">>, <<"-">>}, c \in PercentCents \ {0}, suffix \in {<<>>, <<"%">>} :
          call.key = TextCell(PercentText(prefix, c, suffix)) =>
             result = (IF prefix = <<"-">> THEN <<"-">> ELSE <<"+">>)
                          \o Format2f(FALSE, c) \o <<"%">>

\* C19 as stated: percent formatting keeps the sign exactly once: "-3.25%"
\* gives "-3.25%", 3.25 gives "+3.25%", zero gives a text with no sign, and
\* a missing or non-numeric value gives the placeholder.
C19_SignOnce ==
    call.by = "format_percent_from_raw" =>
        /\ C19_Rest
        /\ ArgIsZero => (Count(result, "-") = 0 /\ Count(result, "+") = 0)

\* C19, amended: as stated, but zero gives a text with no sign only when
\* it is written without a minus sign ("0", "+0.00%", 0.0), namely
\* "0.00%"; a zero written with one (-0.0, "-0.00%") gives "-0.00%".
C19_SignOnceAmended ==
    call.by = "format_percent_from_raw" =>
        /\ C19_Rest
        /\ (ArgIsZero /\ ~ArgHasMinus) => result = <<"0",".","0","0","%">>
        /\ (ArgIsZero /\ ArgHasMinus) => result = <<"-","0",".","0","0","%">>

\* the text "-0.00%" formatted
C19_Witness ==
    /\ call.by = "format_percent_from_raw"
    /\ call.key = TextCell(<<"-","0",".","0","0","%">>)
    /\ result = <<"-","0",".","0","0","%">>

\* C20: an unlocked session never re-locks: once verified_key is set, no
\* step (a pass of main() on any tab, a day going by, a further validation)
\* changes verified_key or verified_key_mask, no pass validates again or
\* shows the preview, the locked prompt or the access input, and the full
\* table stays on show when the key's first_seen is 30 days old or more.
C20_NeverRelocks ==
    [][ verified_key # None =>
          /\ verified_key' = verified_key
          /\ verified_key_mask' = verified_key_mask
          /\ call'.by # "main"
          /\ page'.table # "preview" /\ page'.kind # "locked" /\ ~page'.input ]_vars

\* the full table shown to an unlocked session whose key was first seen 30
\* days ago or more
C20_Witness ==
    /\ verified_key = KeyA
    /\ KeyA \in DOMAIN key_states /\ Elapsed(KeyA) >= 30
    /\ page.kind = "signals" /\ page.table = "full" /\ Len(page.rows) = MaxRows

\* C21: with a clock that never goes back, expiry is absorbing within a
\* session: once validate(K) returned expired for a key K, every later
\* validate(K) returns valid = False with expired = True; and the
\* days_remaining of successive valid results for K never goes up.
C21_ExpiryAbsorbing ==
    [][ \A k \in DOMAIN log :
          (call'.by = "direct" /\ TrimUpper[call'.key] = k) =>
             /\ log[k].expired > 0 =>
                   /\ "expired" \in DOMAIN result'
                   /\ result'.expired = TRUE /\ ~result'.valid
             /\ (log[k].remaining # <<>> /\ result'.valid) =>
                   result'.days_remaining <= log[k].remaining[1] ]_vars

\* a key that got expired, then, a day or more later, expired again, after a
\* run of valid results
C21_Witness ==
    /\ call.by = "direct" /\ call.key = KeyB
    /\ "expired" \in DOMAIN result
    /\ KeyB \in DOMAIN log /\ log[KeyB].expired = 2 /\ log[KeyB].remaining # <<>>
    /\ log[KeyB].remaining[1] < 30
    /\ Elapsed(KeyB) > 30

\* C22: in every reachable session state verified_key and verified_key_mask
\* are both None or both set; when set, the mask is mask_key of the trimmed,
\* uppercased verified_key, that key is on the allow-list, and key_states
\* holds a first_seen record for it.
C22_VerifiedConsistent ==
    /\ (verified_key = None) <=> (verified_key_mask = None)
    /\ verified_key # None =>
          LET k == TrimUpper[verified_key]
          IN  /\ verified_key_mask = mask_key(k)
              /\ k = KeyA =>
                    verified_key_mask =
                       <<"E","F","-","2","6","Q","1","-","*","*","*","*","K","Z","2","M">>
              /\ Listed(k)
              /\ k \in DOMAIN key_states
              /\ StrptimeOk(key_states[k].first_seen)

\* a session unlocked by a pass of main() with the lower-case spelling of a
\* built-in key
C22_Witness ==
    /\ call.by = "main" /\ call.key = KeyA_lower /\ result.valid
    /\ verified_key = KeyA_lower
    /\ verified_key_mask = <<"E","F","-","2","6","Q","1","-","*","*","*","*","K","Z","2","M">>
    /\ KeyA \in DOMAIN key_states

====
